---- MODULE Spec2Model ----
(***************************************************************************)
(* Reports service (src/reports_service_local.py): the sanitizer, the      *)
(* LaTeX source generator, the compile/upload step and the report record   *)
(* lifecycle driven by POST /reports/generate.                             *)
(*                                                                         *)
(* Text is a sequence of lexemes.  A lexeme is either one character (the   *)
(* backslash, the nine characters sanitize_latex escapes, a blank, a tab,  *)
(* a newline) or an indivisible piece of text: a word, the three backticks *)
(* of a code fence, \documentclass, \end{document}, a literal piece of the *)
(* fallback template.                                                      *)
(***************************************************************************)
EXTENDS Integers, Sequences, FiniteSets, TLC

VARIABLES
    sanIn,      \* sanitize_latex: the argument (a tagged value)
    sanOut,     \* sanitize_latex: the results of the successive applications
    genParams,  \* generate_latex_from_ai: params
    genBackend, \* generate_latex_from_ai: what openai.chat.completions.create does
    genOut,     \* generate_latex_from_ai: its outcome
    pc,         \* generate_report: where each request is
    req,        \* generate_report: the request body (req)
    report,     \* generate_report: the local variable report
    latex,      \* generate_report: the local variable latex
    result,     \* compile_latex_to_pdf: the CompletedProcess of pdflatex
    tmpdir,     \* compile_latex_to_pdf: the TemporaryDirectory of the call
    paths,      \* compile_latex_to_pdf: s3_tex_path, s3_pdf_path
    exc,        \* generate_report: the exception that left the try block
    resp,       \* generate_report: the response the caller gets
    log,        \* what each request has invoked so far, in order
    db,         \* the report table: the committed rows, by id
    tmpfs,      \* the temporary directories that exist, with their files
    outdir,     \* the files of OUTPUT_DIR
    s3          \* the objects of the bucket

pureVars == <<sanIn, sanOut, genParams, genBackend, genOut>>
localVars == <<pc, req, report, latex, result, tmpdir, paths, exc, resp, log>>
sharedVars == <<db, tmpfs, outdir, s3>>
vars == <<pureVars, localVars, sharedVars>>

----------------------------------------------------------------------------
(* Bounds *)

MaxLen == 3         \* longest text handed to sanitize_latex
MaxRespLen == 4     \* longest backend response, in lexemes
NumReq == 2         \* POST /reports/generate requests, all of which may overlap

----------------------------------------------------------------------------
(* Text *)

BS == "\\"
DOCCLASS == "\\documentclass"
ENDDOC == "\\end{document}"
FENCE == "<fence>"      \* the three backticks of a code fence (no backtick in a TLA+ string)
LATEXWORD == "latex"
NL == "\n"
SP == " "
TAB == "\t"

SeqsUpTo(S, n) == UNION {[1..k -> S] : k \in 0..n}

StrVal(s) == [tag |-> "str", s |-> s, n |-> 0]
IntVal(n) == [tag |-> "int", s |-> <<>>, n |-> n]

Digit(d) == CASE d = 0 -> "0" [] d = 1 -> "1" [] d = 2 -> "2" [] d = 3 -> "3"
              [] d = 4 -> "4" [] d = 5 -> "5" [] d = 6 -> "6" [] d = 7 -> "7"
              [] d = 8 -> "8" [] d = 9 -> "9"

RECURSIVE IntToText(_)
IntToText(n) == IF n < 10 THEN <<Digit(n)>>
                ELSE IntToText(n \div 10) \o <<Digit(n % 10)>>

\* str(text) of a value that is not a str already
Str(v) == IF v.tag = "str" THEN v.s ELSE IntToText(v.n)

----------------------------------------------------------------------------
(* sanitize_latex *)

\* the replacements dict (raw strings), in insertion order
Replacements == <<
    <<"&", <<BS, "&">> >>,
    <<"%", <<BS, "%">> >>,
    <<"$", <<BS, "$">> >>,
    <<"#", <<BS, "#">> >>,
    <<"_", <<BS, "_">> >>,
    <<"{", <<BS, "{">> >>,
    <<"}", <<BS, "}">> >>,
    <<"~", <<BS, "t", "extasciitilde", "{", "}">> >>,
    <<"^", <<BS, "t", "extasciicircum", "{", "}">> >> >>

\* re.sub reads its replacement as a template: backslash-t stands for a tab, and
\* a backslash before a character that is no letter stays, with that character
RECURSIVE ExpandTemplate(_)
ExpandTemplate(r) ==
    IF r = <<>> THEN <<>>
    ELSE IF Head(r) = BS /\ Len(r) >= 2 /\ r[2] = "t"
         THEN <<TAB>> \o ExpandTemplate(SubSeq(r, 3, Len(r)))
    ELSE IF Head(r) = BS /\ Len(r) >= 2
         THEN <<BS, r[2]>> \o ExpandTemplate(SubSeq(r, 3, Len(r)))
    ELSE <<Head(r)>> \o ExpandTemplate(Tail(r))

SpecialChars == {Replacements[i][1] : i \in 1..Len(Replacements)}

\* re.sub(rf"(?<!\\){re.escape(char)}", escaped, text), from position i on
RECURSIVE ReSubFrom(_, _, _, _)
ReSubFrom(text, char, escaped, i) ==
    IF i > Len(text) THEN <<>>
    ELSE (IF text[i] = char /\ (i = 1 \/ text[i - 1] # BS)
            THEN ExpandTemplate(escaped)
            ELSE <<text[i]>>) \o ReSubFrom(text, char, escaped, i + 1)

ReSub(text, char, escaped) == ReSubFrom(text, char, escaped, 1)

\* the for loop over replacements.items(), entries k..9
RECURSIVE ReplaceLoop(_, _)
ReplaceLoop(text, k) ==
    IF k > Len(Replacements) THEN text
    ELSE ReplaceLoop(ReSub(text, Replacements[k][1], Replacements[k][2]), k + 1)

sanitize_latex(v) == ReplaceLoop(Str(v), 1)

----------------------------------------------------------------------------
(* generate_latex_from_ai *)

IsSpace(c) == c \in {SP, NL, TAB}

RECURSIVE LStrip(_)
LStrip(t) == IF t # <<>> /\ IsSpace(Head(t)) THEN LStrip(Tail(t)) ELSE t

RECURSIVE RStrip(_)
RStrip(t) == IF t # <<>> /\ IsSpace(t[Len(t)]) THEN RStrip(SubSeq(t, 1, Len(t) - 1)) ELSE t

\* str.strip()
Strip(t) == RStrip(LStrip(t))

\* re.MULTILINE: ^ matches at the start and after a newline, $ at the end and before one
AtLineStart(t, i) == i = 1 \/ t[i - 1] = NL
AtLineEnd(t, i) == i > Len(t) \/ t[i] = NL

\* re.sub(r"^(fence)latex|(fence)$", "", t, flags=re.MULTILINE), from position i on
RECURSIVE StripFencesFrom(_, _)
StripFencesFrom(t, i) ==
    IF i > Len(t) THEN <<>>
    ELSE IF /\ t[i] = FENCE /\ AtLineStart(t, i)
            /\ i + 1 <= Len(t) /\ t[i + 1] = LATEXWORD
         THEN StripFencesFrom(t, i + 2)
    ELSE IF t[i] = FENCE /\ AtLineEnd(t, i + 1)
         THEN StripFencesFrom(t, i + 1)
    ELSE <<t[i]>> \o StripFencesFrom(t, i + 1)

\* lines 140-141: the response content, trimmed and without its fences
PostProcess(content) == Strip(StripFencesFrom(Strip(content), 1))

\* latex_output.lstrip().startswith("\\documentclass")
StartsWithDocclass(t) == LStrip(t) # <<>> /\ Head(LStrip(t)) = DOCCLASS

\* params.get(key, default)
Get(params, key, default) == IF key \in DOMAIN params THEN params[key] ELSE default

NA == StrVal(<<"N/A">>)
SIN_COMENTARIOS == StrVal(<<"Sin comentarios.">>)

\* the pieces of the template between the substituted values
T_PREAMBLE == "[12pt]{article} ... \\begin{itemize}"
T_VENTAS == "\\item Ventas: "
T_COSTOS == "\\item Costos: "
T_UTILIDAD == "\\item Utilidad: "
T_END_ITEMS == "\\end{itemize}"
T_COMENTARIO == "Comentario: "

\* lines 150-167: the rf-string with the four values substituted, stripped
Template(ventas, costos, utilidad, comentario) ==
    Strip(<<NL, DOCCLASS, T_PREAMBLE, NL, T_VENTAS>> \o ventas
          \o <<NL, T_COSTOS>> \o costos
          \o <<NL, T_UTILIDAD>> \o utilidad
          \o <<NL, T_END_ITEMS, NL, NL, T_COMENTARIO>> \o comentario
          \o <<NL, ENDDOC, NL>>)

\* lines 145-148: a value of params as it is put into the template
UnsanitizedField(v) == Str(v)
TemplateField(v) == sanitize_latex(v)

\* lines 144-167: the default document
Fallback(params) ==
    Template(TemplateField(Get(params, "ventas", NA)),
             TemplateField(Get(params, "costos", NA)),
             TemplateField(Get(params, "utilidad", NA)),
             TemplateField(Get(params, "comentario", SIN_COMENTARIOS)))

\* line 144: whether the processed response is replaced by the default document
NeedsFallback(t) == ~StartsWithDocclass(t)

\* lines 131-138: an exception of the backend call leaves the function
RaisedAsFallback(backend, params) == [kind |-> "return", text |-> Fallback(params)]
OnBackendError(backend, params) == [kind |-> "raise", text |-> <<>>]

\* lines 109-170
generate_latex_from_ai(params, backend) ==
    IF backend.kind = "raise"
    THEN OnBackendError(backend, params)
    ELSE LET latex_output == PostProcess(backend.content)
         IN  [kind |-> "return",
              text |-> IF NeedsFallback(latex_output)
                       THEN Fallback(params)
                       ELSE latex_output]

----------------------------------------------------------------------------
(* The report table, the request and the files *)

Reqs == 1..NumReq
Ids == 1..(NumReq + 1)    \* the values uuid.uuid4() may return, and one no record has
Dirs == 1..NumReq         \* the names tempfile may give a directory

S3_BUCKET == "ocr-files-db"
S3_PREFIX == "pdf/"
OUTPUT_DIR == "./output_reports"

None == [set |-> FALSE, val |-> <<>>]
Some(v) == [set |-> TRUE, val |-> v]

\* datetime.utcnow().  Only the times of one row are compared: a time is the
\* number of readings of the clock that went into the row before it.
FirstReading == 0
utcnow(earlier) == earlier + 1

\* class Report: a new row, with the defaults of its fields
Report(id, tenant_id, type, period, params) ==
    [id |-> id, tenant_id |-> tenant_id, type |-> type, period |-> period,
     params |-> params, status |-> "processing",
     storage_key_pdf |-> None, storage_key_tex |-> None,
     created_at |-> FirstReading, updated_at |-> utcnow(FirstReading)]

\* class ReportRequest
ReportRequest(tenant_id, type, period, params) ==
    [tenant_id |-> tenant_id, type |-> type, period |-> period, params |-> params]

NoRequest == ReportRequest("", "", "", <<>>)

\* the local variable report: the row it names and whether the attributes of
\* the object are loaded (after refresh, after session.get), expired (after a
\* commit, after a rollback; the object is detached once its session is
\* closed) or the variable is None
Unbound == [id |-> 0, attrs |-> "unbound"]
Bound(id, attrs) == [id |-> id, attrs |-> attrs]

UsedIds == {report[q].id : q \in {r \in Reqs : report[r] # Unbound}}

\* a file: its path and the request whose data it holds
File(dir, id, ext, by) == [path |-> <<dir, id, ext>>, by |-> by]

\* Path.replace(target): the file is at target, whatever was there is gone
MoveLost(files, f) == files
Replace(files, f) == {g \in files : g.path # f.path} \cup {f}

\* upload_file_to_s3: the key of the object and the path returned
S3Key(tenant_id, id, ext) == <<S3_PREFIX, tenant_id, "/", id, ext>>
S3Path(bucket, key) == <<"s3://", bucket, "/">> \o key

\* s3_client.upload_file: the object under the key is the file; writes is the
\* number of uploads the key has received
PutObject(objects, key, by) ==
    LET earlier == {o \in objects : o.key = key}
        count == IF earlier = {} THEN 0 ELSE (CHOOSE o \in earlier : TRUE).writes
    IN  (objects \ earlier) \cup {[key |-> key, by |-> by, writes |-> count + 1]}

\* the responses of generate_report
NoResponse == [code |-> 0, body |-> <<>>]
Ok200(id, pdf_path) == [code |-> 200, body |-> <<id, "ready", pdf_path>>]
HTTPException500 == [code |-> 500, body |-> <<"Error generando reporte">>]
Unhandled500 == [code |-> 500, body |-> <<"Internal Server Error">>]

----------------------------------------------------------------------------
(* generate_report, compile_latex_to_pdf *)

\* the request bodies (type and period are free text the service only stores)
Bodies ==
    { ReportRequest("t1", "monthly", "2024-01",
          [ventas |-> IntVal(1000), costos |-> IntVal(600), utilidad |-> IntVal(400)]),
      ReportRequest("t2", "annual", "2023",
          [comentario |-> StrVal(<<"R", "&", "D">>)]) }

\* what openai.chat.completions.create does: it raises, it returns a document,
\* it returns something else
LcBackendOutcomes ==
    { [kind |-> "raise", content |-> <<>>],
      [kind |-> "return", content |-> <<DOCCLASS, "x", NL, ENDDOC>>],
      [kind |-> "return", content |-> <<"x">>] }

Least(S) == CHOOSE i \in S : \A j \in S : i <= j

\* uuid.uuid4(): a value no earlier call returned (which of them is immaterial)
RepeatedId == Least(Ids)
uuid4 == Least(Ids \ UsedIds)

\* tempfile: a name no existing directory has (which of them is immaterial)
FixedDirectory == Least(Dirs)
mkdtemp == Least(Dirs \ DOMAIN tmpfs)

Step == UNCHANGED pureVars

\* log: the stages a running call has invoked, the one that raised, the
\* updates it has committed; of a finished call, the last two only
Stages == {"generate", "pdflatex", "upload_tex", "upload_pdf"}
Logged(p, entries) == log' = [log EXCEPT ![p] = @ \o entries]
Kept(entry) == entry \notin Stages

\* the local variables of a call that has returned or raised are gone
Returned(p, response, entries) ==
    /\ pc' = [pc EXCEPT ![p] = "done"]
    /\ resp' = [resp EXCEPT ![p] = response]
    /\ exc' = [exc EXCEPT ![p] = None]
    /\ paths' = [paths EXCEPT ![p] = <<None, None>>]
    /\ log' = [log EXCEPT ![p] = SelectSeq(@ \o entries, Kept)]

\* where a request goes when a stage raises inside the try block
RetryStage(stage) == stage
GoesOnWithoutPdf(stage) == IF stage = "compile" THEN "upload_tex" ELSE "except"
OnStageFailure(stage) == "except"

StageRaises(p, stage, e) ==
    /\ pc' = [pc EXCEPT ![p] = OnStageFailure(stage)]
    /\ exc' = [exc EXCEPT ![p] = Some(e)]

\* lines 237-238: the row is added and committed
NotCommitted(rows, r) == rows
CreateCommit(rows, r) == (r.id :> r) @@ rows

\* lines 230-239.  The commit may raise (no row), the refresh may raise (the
\* row is there); either exception leaves generate_report, which has not
\* entered its try block.
Create(p) ==
    /\ pc[p] = "new"
    /\ \A q \in Reqs : q < p => pc[q] # "new"     \* the requests are numbered as they arrive
    /\ \E body \in Bodies, outcome \in {"ok", "commit_raises", "refresh_raises"} :
          /\ req' = [req EXCEPT ![p] = body]
          /\ db' = IF outcome = "commit_raises" THEN db
                   ELSE CreateCommit(db, Report(uuid4, body.tenant_id, body.type, body.period,
                                                body.params))
          /\ IF outcome = "ok"
             THEN /\ pc' = [pc EXCEPT ![p] = "generate"]
                  /\ report' = [report EXCEPT ![p] = Bound(uuid4, "loaded")]
                  /\ UNCHANGED <<resp, exc, paths>>
                  /\ UNCHANGED log
             ELSE /\ Returned(p, Unhandled500, <<"raised_create">>)
                  /\ report' = [report EXCEPT ![p] = Bound(uuid4, "gone")]
    /\ UNCHANGED <<latex, result, tmpdir, tmpfs, outdir, s3>>
    /\ Step

\* line 243
Generate(p) ==
    /\ pc[p] = "generate"
    /\ \E backend \in LcBackendOutcomes :
          LET out == generate_latex_from_ai(req[p].params, backend)
          IN  IF out.kind = "raise"
              THEN /\ StageRaises(p, "generate", <<"backend">>)
                   /\ Logged(p, <<"generate", "raised_generate">>)
                   /\ UNCHANGED latex
              ELSE /\ pc' = [pc EXCEPT ![p] = "compile"]
                   /\ latex' = [latex EXCEPT ![p] = out.text]
                   /\ Logged(p, <<"generate">>)
                   /\ UNCHANGED exc
    /\ UNCHANGED <<req, report, result, tmpdir, paths, resp, sharedVars>>
    /\ Step

\* subprocess.run(..., capture_output=True, text=True): the exit code of
\* pdflatex and what it wrote.  What a run wrote is a text of its own.
CompletedProcess(returncode, stdout, stderr) ==
    [returncode |-> returncode, stdout |-> stdout, stderr |-> stderr]
NoResult == CompletedProcess(0, <<>>, <<>>)
Captured(stream, p) == <<stream, p>>

\* lines 201-203: the RuntimeError raised when there is no PDF
NoPdfError(r) == <<"LaTeX no produjo el PDF.", r.stdout, r.stderr>>

\* lines 188-198: a new directory, the source written into it, pdflatex run
\* in it, which leaves a PDF there or not and exits with 0 or not
Compile(p) ==
    /\ pc[p] = "compile"
    /\ \E made \in BOOLEAN, returncode \in {0, 1} :
          LET d == mkdtemp
              tex == File(d, report[p].id, ".tex", p)
              pdf == File(d, report[p].id, ".pdf", p)
          IN  /\ tmpdir' = [tmpdir EXCEPT ![p] = d]
              /\ tmpfs' = (d :> (IF made THEN {tex, pdf} ELSE {tex})) @@ tmpfs
              /\ result' = [result EXCEPT ![p] =
                     CompletedProcess(returncode, Captured("stdout", p), Captured("stderr", p))]
    /\ latex' = [latex EXCEPT ![p] = <<>>]      \* tex_content is not read again
    /\ pc' = [pc EXCEPT ![p] = "check"]
    /\ Logged(p, <<"pdflatex">>)
    /\ UNCHANGED <<req, report, paths, exc, resp, db, outdir, s3>>
    /\ Step

\* the end of the with block: the directory and what is left in it are removed
DirectoryLeft(p) ==
    /\ tmpfs' = tmpfs
    /\ tmpdir' = [tmpdir EXCEPT ![p] = 0]
Cleanup(p) ==
    /\ tmpfs' = [e \in DOMAIN tmpfs \ {tmpdir[p]} |-> tmpfs[e]]
    /\ tmpdir' = [tmpdir EXCEPT ![p] = 0]

\* line 200
ExitCodeZero(p) == result[p].returncode = 0
PdfExists(p) == \E f \in tmpfs[tmpdir[p]] : f.path = <<tmpdir[p], report[p].id, ".pdf">>

\* lines 200-209: no PDF raises; otherwise both files move to OUTPUT_DIR
CheckPdf(p) ==
    /\ pc[p] = "check"
    /\ IF ~PdfExists(p)
       THEN /\ StageRaises(p, "compile", NoPdfError(result[p]))
            /\ Logged(p, <<"raised_compile">>)
            /\ Cleanup(p)
            /\ result' = [result EXCEPT ![p] = NoResult]
            /\ UNCHANGED outdir
       ELSE /\ pc' = [pc EXCEPT ![p] = "upload_tex"]
            /\ outdir' = Replace(Replace(outdir,
                                         File(OUTPUT_DIR, report[p].id, ".tex", p)),
                                 File(OUTPUT_DIR, report[p].id, ".pdf", p))
            /\ tmpfs' = [tmpfs EXCEPT ![tmpdir[p]] = {}]
            /\ UNCHANGED <<exc, tmpdir, log, result>>
    /\ UNCHANGED <<req, report, latex, paths, resp, db, s3>>
    /\ Step

\* the file of OUTPUT_DIR an upload reads
LocalCopy(id, ext) == CHOOSE f \in outdir : f.path = <<OUTPUT_DIR, id, ext>>

\* lines 211-222, the first upload
UploadTex(p) ==
    /\ pc[p] = "upload_tex"
    /\ \E uploaded \in BOOLEAN :
          LET key == S3Key(req[p].tenant_id, report[p].id, ".tex")
          IN  IF uploaded
              THEN /\ s3' = PutObject(s3, key, LocalCopy(report[p].id, ".tex").by)
                   /\ paths' = [paths EXCEPT ![p] = <<Some(S3Path(S3_BUCKET, key)), None>>]
                   /\ pc' = [pc EXCEPT ![p] = "upload_pdf"]
                   /\ Logged(p, <<"upload_tex">>)
                   /\ UNCHANGED <<exc, tmpfs, tmpdir>>
              ELSE /\ StageRaises(p, "upload_tex", <<"s3">>)
                   /\ Logged(p, <<"upload_tex", "raised_upload">>)
                   /\ Cleanup(p)
                   /\ UNCHANGED <<s3, paths>>
    /\ result' = [result EXCEPT ![p] = NoResult]     \* result is not read again
    /\ UNCHANGED <<req, report, latex, resp, db, outdir>>
    /\ Step

\* lines 219-224, the second upload and the return
UploadPdf(p) ==
    /\ pc[p] = "upload_pdf"
    /\ \E uploaded \in BOOLEAN :
          LET key == S3Key(req[p].tenant_id, report[p].id, ".pdf")
          IN  IF uploaded
              THEN /\ s3' = PutObject(s3, key, LocalCopy(report[p].id, ".pdf").by)
                   /\ paths' = [paths EXCEPT ![p] = <<@[1], Some(S3Path(S3_BUCKET, key))>>]
                   /\ pc' = [pc EXCEPT ![p] = "ready"]
                   /\ Logged(p, <<"upload_pdf">>)
                   /\ UNCHANGED exc
              ELSE /\ StageRaises(p, "upload_pdf", <<"s3">>)
                   /\ Logged(p, <<"upload_pdf", "raised_upload">>)
                   /\ paths' = [paths EXCEPT ![p] = <<None, None>>]
                   /\ UNCHANGED s3
    /\ Cleanup(p)
    /\ UNCHANGED <<req, report, latex, result, resp, db, outdir>>
    /\ Step

\* lines 251-254: the row as the ready update leaves it
KeepsPdfKey(r, tex_path, pdf_path) ==
    [r EXCEPT !.status = "ready", !.storage_key_tex = tex_path,
              !.updated_at = utcnow(@)]
MarkReady(r, tex_path, pdf_path) ==
    [r EXCEPT !.status = "ready", !.storage_key_tex = tex_path,
              !.storage_key_pdf = pdf_path, !.updated_at = utcnow(@)]

\* lines 270-271: the row as the error update leaves it
ErrorClearsParams(r) == [r EXCEPT !.status = "error", !.params = <<>>, !.updated_at = utcnow(@)]
MarkError(r) == [r EXCEPT !.status = "error", !.updated_at = utcnow(@)]

\* lines 249-264.  session.get may raise; the commit may raise in its flush
\* (the session rolls back and expires the object) or in its COMMIT (the
\* object keeps what was loaded); report.id after the commit reads an expired
\* object, which queries the row again and may raise.
ReadyUpdate(p) ==
    /\ pc[p] = "ready"
    /\ \E outcome \in {"ok", "get_raises", "flush_raises", "commit_raises", "refresh_raises"} :
          LET id == report[p].id
              committed == outcome \in {"ok", "refresh_raises"}
          IN  IF id \notin DOMAIN db
              THEN \* session.get returns None, and None has no attribute status
                   /\ report' = [report EXCEPT ![p] = Bound(id, "none")]
                   /\ pc' = [pc EXCEPT ![p] = "except"]
                   /\ exc' = [exc EXCEPT ![p] = Some(<<"attribute">>)]
                   /\ Logged(p, <<"raised_update">>)
                   /\ UNCHANGED <<db, resp, paths>>
              ELSE /\ db' = IF committed
                            THEN [db EXCEPT ![id] = MarkReady(@, paths[p][1], paths[p][2])]
                            ELSE db
                   /\ IF outcome = "ok"
                      THEN /\ Returned(p, Ok200(id, paths[p][2]), <<"commit_ready">>)
                           /\ report' = [report EXCEPT ![p] = Bound(id, "gone")]
                      ELSE /\ pc' = [pc EXCEPT ![p] = "except"]
                           /\ Logged(p, IF committed THEN <<"commit_ready", "raised_update">>
                                                     ELSE <<"raised_update">>)
                           /\ exc' = [exc EXCEPT ![p] = Some(<<"db">>)]
                           /\ report' = [report EXCEPT ![p] =
                                  CASE outcome = "get_raises" -> @
                                    [] outcome = "commit_raises" -> Bound(id, "loaded")
                                    [] OTHER -> Bound(id, "expired")]
                           /\ paths' = [paths EXCEPT ![p] = <<None, None>>]
                           /\ UNCHANGED resp
    /\ UNCHANGED <<req, latex, result, tmpdir, tmpfs, outdir, s3>>
    /\ Step

\* line 269: report.id can be read when the attributes of the object are
\* loaded; read on a detached object whose attributes are expired, it raises
AttributesKept(r) == r.attrs \in {"loaded", "expired"}
IdReadable(r) == r.attrs = "loaded"

\* lines 266-274.  An exception raised in the handler leaves generate_report.
ErrorUpdate(p) ==
    /\ pc[p] = "except"
    /\ IF ~IdReadable(report[p]) \/ report[p].id \notin DOMAIN db
       THEN /\ Returned(p, Unhandled500, <<>>)
            /\ UNCHANGED db
       ELSE \E outcome \in {"ok", "get_raises", "commit_raises"} :
               /\ db' = IF outcome = "ok"
                        THEN [db EXCEPT ![report[p].id] = MarkError(@)]
                        ELSE db
               /\ Returned(p, IF outcome = "ok" THEN HTTPException500 ELSE Unhandled500,
                               IF outcome = "ok" THEN <<"commit_error">> ELSE <<>>)
    /\ report' = [report EXCEPT ![p] = Bound(@.id, "gone")]
    /\ UNCHANGED <<req, latex, result, tmpdir, tmpfs, outdir, s3>>
    /\ Step

----------------------------------------------------------------------------
(* get_report, download_report *)

NotFound(detail) == [code |-> 404, body |-> <<detail>>]

\* lines 277-283
get_report(report_id) ==
    IF report_id \notin DOMAIN db
    THEN NotFound("Reporte no encontrado")
    ELSE [code |-> 200, body |-> <<db[report_id]>>]

\* FileResponse(path): the file of the local file system at that path
FileResponse(path) ==
    IF \E f \in outdir : f.path = path
    THEN [code |-> 200, body |-> <<CHOOSE f \in outdir : f.path = path>>]
    ELSE [code |-> 500, body |-> <<"File at path does not exist.">>]

\* lines 285-291
ServesWithoutKey(report_id) ==
    IF report_id \notin DOMAIN db
    THEN NotFound("PDF no disponible")
    ELSE FileResponse(db[report_id].storage_key_pdf.val)
download_report(report_id) ==
    IF report_id \notin DOMAIN db \/ ~db[report_id].storage_key_pdf.set
    THEN NotFound("PDF no disponible")
    ELSE FileResponse(db[report_id].storage_key_pdf.val)

\* the two handlers read the table and the files, and write nothing
GetReport(id) ==
    /\ get_report(id).code \in {200, 404}
    /\ UNCHANGED <<localVars, sharedVars, pureVars>>

DownloadReport(id) ==
    /\ download_report(id).code \in {200, 404, 500}
    /\ UNCHANGED <<localVars, sharedVars, pureVars>>

----------------------------------------------------------------------------
(* Specifications *)

LcInit ==
    /\ pc = [p \in Reqs |-> "new"]
    /\ req = [p \in Reqs |-> NoRequest]
    /\ report = [p \in Reqs |-> Unbound]
    /\ latex = [p \in Reqs |-> <<>>]
    /\ result = [p \in Reqs |-> NoResult]
    /\ tmpdir = [p \in Reqs |-> 0]
    /\ paths = [p \in Reqs |-> <<None, None>>]
    /\ exc = [p \in Reqs |-> None]
    /\ resp = [p \in Reqs |-> NoResponse]
    /\ log = [p \in Reqs |-> <<>>]
    /\ db = <<>>
    /\ tmpfs = <<>>
    /\ outdir = {}
    /\ s3 = {}

NoSan == sanIn = StrVal(<<>>) /\ sanOut = <<>>

NoGen == /\ genParams = <<>>
         /\ genBackend = [kind |-> "idle"]
         /\ genOut = [kind |-> "idle"]

\* the service: requests to generate, to read and to download, in any order
Init == LcInit /\ NoSan /\ NoGen

Next ==
    \/ \E p \in Reqs :
          \/ Create(p)
          \/ Generate(p)
          \/ Compile(p)
          \/ CheckPdf(p)
          \/ UploadTex(p)
          \/ UploadPdf(p)
          \/ ReadyUpdate(p)
          \/ ErrorUpdate(p)
    \/ \E id \in Ids : GetReport(id) \/ DownloadReport(id)

Spec == Init /\ [][Next]_vars

\* the sanitizer alone: every short text and a few numbers
SanChars == SpecialChars \cup {BS, "a"}
SanInputs == {StrVal(t) : t \in SeqsUpTo(SanChars, MaxLen)} \cup {IntVal(n) : n \in {0, 7, 100}}

SanInit == /\ sanIn \in SanInputs
           /\ sanOut = <<>>
           /\ NoGen
           /\ LcInit

\* one call: the first on the input, a later one on the previous result
Sanitize == /\ Len(sanOut) < 2
            /\ sanOut' = Append(sanOut,
                   sanitize_latex(IF sanOut = <<>> THEN sanIn ELSE StrVal(sanOut[Len(sanOut)])))
            /\ UNCHANGED <<sanIn, genParams, genBackend, genOut, localVars, sharedVars>>

SanNext == Sanitize

SpecSan == SanInit /\ [][SanNext]_vars

\* the source generator alone: every short response, a few params
RespLexemes == {DOCCLASS, ENDDOC, FENCE, LATEXWORD, NL, SP, "x"}

BackendOutcomes ==
    {[kind |-> "raise", content |-> <<>>]}
    \cup {[kind |-> "return", content |-> c] : c \in SeqsUpTo(RespLexemes, MaxRespLen)}

GenParamsSet ==
    { [ventas |-> IntVal(100)],
      [ventas |-> IntVal(1000), costos |-> IntVal(600), utilidad |-> IntVal(400)],
      [ventas |-> StrVal(<<"5", "0", "%">>), comentario |-> StrVal(<<"R", "&", "D", "_", "x">>)],
      [comentario |-> StrVal(<<"~", "^">>)],
      [costos |-> StrVal(<<"{", "}">>), utilidad |-> StrVal(<<BS, "&", "$", "#">>)],
      [tipo |-> StrVal(<<"a">>)] }

GenInit == /\ genParams \in GenParamsSet
           /\ genBackend \in BackendOutcomes
           /\ genOut = [kind |-> "idle"]
           /\ NoSan
           /\ LcInit

GenerateLatex == /\ genOut.kind = "idle"
                 /\ genOut' = generate_latex_from_ai(genParams, genBackend)
                 /\ UNCHANGED <<sanIn, sanOut, genParams, genBackend, localVars, sharedVars>>

GenNext == GenerateLatex

SpecGen == GenInit /\ [][GenNext]_vars

----------------------------------------------------------------------------
(* Properties of the report lifecycle *)

Running == {p \in Reqs : pc[p] \notin {"new", "done"}}
Done == {p \in Reqs : pc[p] = "done"}
HasRow(p) == report[p] # Unbound /\ report[p].id \in DOMAIN db
Row(p) == db[report[p].id]

Terminal == {"ready", "error"}
IsSet(k) == k.set /\ k.val # <<>>

\* what GET /reports/{id} shows of a row
Consistent(r) ==
    /\ r.status = "ready" => IsSet(r.storage_key_pdf) /\ IsSet(r.storage_key_tex)
    /\ r.status \in {"processing", "error"} =>
           ~r.storage_key_pdf.set /\ ~r.storage_key_tex.set

(* C1: in every reachable state, every row a GET /reports/{id} can return is  *)
(* consistent: ready implies both storage keys set and non-empty, processing  *)
(* and error imply both absent.                                               *)
C1_StatusAndKeysConsistent ==
    \A id \in Ids :
        get_report(id).code = 200 =>
            /\ get_report(id).body[1].status \in Terminal \cup {"processing"}
            /\ Consistent(get_report(id).body[1])

C1_Witness ==
    \E p \in Reqs, q \in Reqs :
        /\ HasRow(p) /\ Row(p).status = "ready"
        /\ HasRow(q) /\ pc[q] = "upload_pdf" /\ Row(q).status = "processing"

(* C2: a status changes only from processing, and only to ready or to error;  *)
(* a row whose status is ready or error keeps that status in every later      *)
(* step, the exception handler of its own request included.                   *)
C2_TerminalStatusIsFinal ==
    [][\A id \in DOMAIN db :
          /\ id \in DOMAIN db'
          /\ db[id].status \in Terminal => db'[id].status = db[id].status
          /\ db'[id].status # db[id].status =>
                 db[id].status = "processing" /\ db'[id].status \in Terminal]_vars

\* the handler has run after the ready update was committed
C2_Witness ==
    \E p \in Done :
        /\ HasRow(p) /\ Row(p).status = "ready"
        /\ log[p] = <<"commit_ready", "raised_update">>
        /\ resp[p] = Unhandled500

TerminalCommits(p) == SelectSeq(log[p], LAMBDA e : e \in {"commit_ready", "commit_error"})

(* C3: every call of generate_report that has a row commits exactly one       *)
(* update that writes a terminal status to it: never two, and one once the    *)
(* call has finished.                                                         *)
C3_ExactlyOneTerminalUpdate ==
    \A p \in Reqs :
        /\ Len(TerminalCommits(p)) <= 1
        /\ (p \in Done /\ HasRow(p)) => Len(TerminalCommits(p)) = 1

StageRaised(p) ==
    \E i \in 1..Len(log[p]) : log[p][i] \in {"raised_generate", "raised_compile", "raised_upload"}

UploadedBy(path, p) ==
    \E o \in s3 : S3Path(S3_BUCKET, o.key) = path /\ o.by = p

(* C4: once generate_report has finished, the row is terminal and matches     *)
(* the outcome: after a failed stage it is error with no storage keys and     *)
(* the caller got an error response; after a 200 response it is ready, both   *)
(* keys name objects uploaded for this report and pdf_path is the row's       *)
(* storage_key_pdf.  The row is never left in processing.                     *)
C4_FinishedMatchesOutcome ==
    \A p \in Done :
        HasRow(p) =>
            /\ Row(p).status \in Terminal
            /\ StageRaised(p) =>
                   /\ Row(p).status = "error"
                   /\ ~Row(p).storage_key_pdf.set /\ ~Row(p).storage_key_tex.set
                   /\ resp[p].code = 500
            /\ resp[p].code = 200 =>
                   /\ Row(p).status = "ready"
                   /\ IsSet(Row(p).storage_key_pdf) /\ IsSet(Row(p).storage_key_tex)
                   /\ UploadedBy(Row(p).storage_key_pdf.val, p)
                   /\ UploadedBy(Row(p).storage_key_tex.val, p)
                   /\ resp[p].body = <<report[p].id, "ready", Row(p).storage_key_pdf>>

\* the pipeline of p has started and no terminal update of p is committed
InPipeline(p) == p \in Running /\ TerminalCommits(p) = <<>>

(* C5: the row is committed with status processing before the first stage     *)
(* starts: from then until the terminal update, GET /reports/{id} for the     *)
(* identifier of the request returns the row, with status processing, and     *)
(* not NotFound.                                                              *)
C5_RowVisibleDuringPipeline ==
    \A p \in Reqs :
        InPipeline(p) =>
            /\ get_report(report[p].id).code = 200
            /\ get_report(report[p].id).body[1].status = "processing"
            /\ get_report(report[p].id).body[1].id = report[p].id

C5_Witness ==
    \E p \in Reqs :
        /\ pc[p] = "upload_pdf"
        /\ get_report(report[p].id).code = 200
        /\ get_report(report[p].id).body[1].status = "processing"

StageOrder == <<"generate", "pdflatex", "upload_tex", "upload_pdf">>
StagesRun(p) == SelectSeq(log[p], LAMBDA e : e \in Stages)
Raises(p) == SelectSeq(log[p], LAMBDA e : e \in {"raised_generate", "raised_compile",
                                                  "raised_upload", "raised_update"})
IsPrefix(a, b) == Len(a) <= Len(b) /\ SubSeq(b, 1, Len(a)) = a

\* the stages that have returned when a running request is at pc
ReturnedAt(where) ==
    CASE where = "generate" -> 0
      [] where \in {"compile"} -> 1
      [] where \in {"check", "upload_tex"} -> 2
      [] where = "upload_pdf" -> 3
      [] where = "ready" -> 4

(* C6: within one request the stages run in the order generate, pdflatex,     *)
(* upload of the source, upload of the PDF, each at most once: a stage is     *)
(* invoked only after the ones before it returned, the ready update is        *)
(* committed only after both uploads succeeded, and after the first failure   *)
(* no stage runs again.                                                       *)
C6_StagesInOrderOnce ==
    \A p \in Reqs :
        /\ Len(Raises(p)) <= 1
        /\ p \in Running =>
               /\ IsPrefix(StagesRun(p), StageOrder)
               /\ pc[p] # "except" =>
                      /\ Raises(p) = <<>>
                      /\ Len(StagesRun(p)) = ReturnedAt(pc[p])
               /\ pc[p] = "except" => Len(Raises(p)) = 1
               /\ TerminalCommits(p) # <<>> => StagesRun(p) = StageOrder
        /\ (TerminalCommits(p) = <<"commit_ready">>) => ~StageRaised(p)

C6_Witness ==
    \E p \in Reqs, q \in Reqs :
        /\ pc[p] = "ready" /\ StagesRun(p) = StageOrder
        /\ pc[q] = "except" /\ log[q] = <<"generate", "pdflatex", "upload_tex", "raised_upload">>

----------------------------------------------------------------------------
(* Properties of the source generator and the sanitizer *)

IsInfix(a, b) == \E i \in 0..(Len(b) - Len(a)) : SubSeq(b, i + 1, i + Len(a)) = a

\* what sanitize_latex puts in place of ~ and of ^
SanitizerCommands == {ExpandTemplate(Replacements[k][2]) : k \in {8, 9}}

\* position i of t lies in an occurrence of one of them
InsideCommand(t, i) ==
    \E c \in SanitizerCommands : \E j \in 1..i :
        /\ i < j + Len(c)
        /\ j + Len(c) - 1 <= Len(t)
        /\ SubSeq(t, j, j + Len(c) - 1) = c

\* position i of t holds one of the nine characters, neither preceded by a
\* backslash nor put there by sanitize_latex in place of a ~ or a ^
UnescapedAt(t, i) ==
    /\ t[i] \in SpecialChars
    /\ ~(i > 1 /\ t[i - 1] = BS)
    /\ ~InsideCommand(t, i)

NoUnescapedSpecial(t) == \A i \in 1..Len(t) : ~UnescapedAt(t, i)

GenCalled == genOut.kind # "idle"
MalformedResponse == /\ genBackend.kind = "return"
                     /\ ~StartsWithDocclass(PostProcess(genBackend.content))

(* C7: when the backend call raises, generate_latex_from_ai raises and does   *)
(* not return the fallback document; the fallback document is returned only   *)
(* when the call returned a text that, trimmed and without its fences, does   *)
(* not start with \documentclass.                                             *)
C7_BackendErrorNeverFallsBack ==
    GenCalled =>
        /\ (genBackend.kind = "raise" => genOut.kind = "raise")
        /\ (genOut.kind = "return" /\ genOut.text = Fallback(genParams)
                => MalformedResponse)

C7_Witness == genBackend.kind = "raise" /\ genOut.kind = "raise"

(* C8: when the processed response does not start with \documentclass, the    *)
(* returned source starts with \documentclass, holds the sanitized ventas,    *)
(* costos, utilidad and comentario of params (N/A and Sin comentarios. when   *)
(* absent) after their labels, and has no unescaped special character.        *)
C8_FallbackEmbedsSanitized ==
    (GenCalled /\ MalformedResponse) =>
        /\ genOut.kind = "return"
        /\ Head(genOut.text) = DOCCLASS
        /\ IsInfix(<<T_VENTAS>> \o sanitize_latex(Get(genParams, "ventas", NA)) \o <<NL>>,
                   genOut.text)
        /\ IsInfix(<<T_COSTOS>> \o sanitize_latex(Get(genParams, "costos", NA)) \o <<NL>>,
                   genOut.text)
        /\ IsInfix(<<T_UTILIDAD>> \o sanitize_latex(Get(genParams, "utilidad", NA)) \o <<NL>>,
                   genOut.text)
        /\ IsInfix(<<T_COMENTARIO>>
                       \o sanitize_latex(Get(genParams, "comentario", SIN_COMENTARIOS))
                       \o <<NL>>,
                   genOut.text)
        /\ NoUnescapedSpecial(genOut.text)

(* C8 as worded, on the text the backend returned rather than on that text    *)
(* trimmed and without its fences: whenever the returned text does not start  *)
(* with \documentclass (blanks before it aside), the fallback document is     *)
(* returned.                                                                  *)
C8_RawTextDecidesFallback ==
    (GenCalled /\ genBackend.kind = "return"
        /\ ~StartsWithDocclass(genBackend.content)) =>
        /\ genOut.kind = "return"
        /\ genOut.text = Fallback(genParams)

C8_Witness == /\ GenCalled /\ MalformedResponse
              /\ genBackend.content = <<"x", NL, ENDDOC>>
              /\ "comentario" \in DOMAIN genParams
              /\ genParams["comentario"] = StrVal(<<"R", "&", "D", "_", "x">>)
              /\ IsInfix(<<T_COMENTARIO, "R", BS, "&", "D", BS, "_", "x", NL>>, genOut.text)

(* C9: whenever the backend call succeeded, generate_latex_from_ai returns a  *)
(* non-empty source that begins with \documentclass and ends with             *)
(* \end{document}.                                                            *)
C9_AlwaysCompleteDocument ==
    (GenCalled /\ genBackend.kind = "return") =>
        /\ genOut.kind = "return"
        /\ genOut.text # <<>>
        /\ Head(genOut.text) = DOCCLASS
        /\ genOut.text[Len(genOut.text)] = ENDDOC

(* C10: sanitize_latex is idempotent: applied to its own result it returns    *)
(* that result unchanged.                                                     *)
C10_SanitizeIdempotent == Len(sanOut) = 2 => sanOut[2] = sanOut[1]

\* the value the replacements dict holds for a character, as written there
EscapedForm(c) ==
    LET k == CHOOSE j \in 1..Len(Replacements) : Replacements[j][1] = c
    IN  Replacements[k][2]

\* t with every one of the nine characters that has no backslash right
\* before it replaced by that value, and everything else kept, from i on
RECURSIVE EscapeEachFrom(_, _)
EscapeEachFrom(t, i) ==
    IF i > Len(t) THEN <<>>
    ELSE (IF t[i] \in SpecialChars /\ ~(i > 1 /\ t[i - 1] = BS)
            THEN EscapedForm(t[i])
            ELSE <<t[i]>>) \o EscapeEachFrom(t, i + 1)

(* C11: sanitize_latex returns its input with every & % $ # _ { } ~ ^ that    *)
(* has no backslash right before it replaced by the escaped form the          *)
(* replacements dict gives for it, every such character after a backslash     *)
(* kept, and every other character kept, in order.                            *)
C11_EscapesEachUnescaped ==
    Len(sanOut) >= 1 => sanOut[1] = EscapeEachFrom(Str(sanIn), 1)

\* the working directory of p holds a PDF
ArtifactPresent(p) == \E f \in tmpfs[tmpdir[p]] : f.path[3] = ".pdf"

(* C12: the step after pdflatex depends on the presence of the PDF alone,     *)
(* whatever the exit code: with the PDF present compile_latex_to_pdf goes on  *)
(* (to the moves and the uploads), with the PDF absent it raises an error     *)
(* that carries the stdout and the stderr captured from the run.              *)
C12_OutcomeByArtifactAlone ==
    [][\A p \in Reqs :
          (pc[p] = "check" /\ pc'[p] # "check") =>
              /\ result[p].returncode \in {0, 1}
              /\ ArtifactPresent(p) => pc'[p] = "upload_tex" /\ ~exc'[p].set
              /\ ~ArtifactPresent(p) =>
                     /\ pc'[p] = "except"
                     /\ exc'[p].set
                     /\ Len(exc'[p].val) = 3
                     /\ exc'[p].val[2] = result[p].stdout /\ exc'[p].val[2] = <<"stdout", p>>
                     /\ exc'[p].val[3] = result[p].stderr /\ exc'[p].val[3] = <<"stderr", p>>]_vars

C12_Witness ==
    \E p \in Reqs, q \in Reqs :
        /\ pc[p] = "upload_tex" /\ result[p].returncode = 1
        /\ pc[q] = "except" /\ exc[q] = Some(<<"LaTeX no produjo el PDF.", <<"stdout", q>>, <<"stderr", q>>>>)

\* the calls that are inside the with block of compile_latex_to_pdf
InCompile == {p \in Reqs : pc[p] \in {"check", "upload_tex", "upload_pdf"}}

\* OUTPUT_DIR holds the file of the report of p with that extension
InOutputDir(p, ext) == \E f \in outdir : f.path = <<OUTPUT_DIR, report[p].id, ext>>

(* C13: the temporary directories that exist are those of the calls that are  *)
(* inside compile_latex_to_pdf: once a call has left it, by its return, by    *)
(* the missing PDF or by a failed upload, its directory is gone.  On the way  *)
(* to the return both files are in OUTPUT_DIR while the directory, emptied of *)
(* them, still exists.                                                        *)
C13_WorkingDirectoryRemoved ==
    /\ DOMAIN tmpfs = {tmpdir[p] : p \in InCompile}
    /\ \A p \in Reqs :
          /\ p \notin InCompile /\ pc[p] # "compile" => tmpdir[p] = 0
          /\ pc[p] \in {"upload_tex", "upload_pdf"} =>
                 /\ tmpdir[p] \in DOMAIN tmpfs /\ tmpfs[tmpdir[p]] = {}
                 /\ InOutputDir(p, ".tex") /\ InOutputDir(p, ".pdf")
          /\ pc[p] = "ready" => InOutputDir(p, ".tex") /\ InOutputDir(p, ".pdf")

C13_Witness ==
    \E p \in Reqs, q \in Reqs :
        /\ pc[p] = "ready" /\ InOutputDir(p, ".pdf")
        /\ pc[q] = "except"
        /\ log[q] = <<"generate", "pdflatex", "raised_compile">>
        /\ DOMAIN tmpfs = {}

InLog(p, entry) == \E i \in 1..Len(log[p]) : log[p][i] = entry

\* the call of p has come to the uploads
ReachedUploads(p) ==
    \/ pc[p] \in {"upload_tex", "upload_pdf", "ready"}
    \/ InLog(p, "raised_upload") \/ InLog(p, "raised_update") \/ InLog(p, "commit_ready")

\* OUTPUT_DIR holds the file of that extension written for the request p
LocalCopyKept(p, ext) ==
    \E f \in outdir : f.path = <<OUTPUT_DIR, report[p].id, ext>> /\ f.by = p

(* C14: when the upload of the source or of the PDF fails, the exception      *)
(* leaves compile_latex_to_pdf and the try block: no ready update is made,    *)
(* the row is not ready and the caller gets an error response.  Whether the   *)
(* uploads succeed or fail, the copies of the source and of the PDF stay in   *)
(* OUTPUT_DIR, during the rest of the request and after it.                   *)
C14_UploadFailureKeepsLocalCopies ==
    \A p \in Reqs :
        /\ InLog(p, "raised_upload") =>
               /\ pc[p] \in {"except", "done"}
               /\ ~InLog(p, "commit_ready")
               /\ HasRow(p) /\ Row(p).status # "ready"
               /\ ~Row(p).storage_key_pdf.set /\ ~Row(p).storage_key_tex.set
               /\ pc[p] = "done" => resp[p].code = 500
        /\ ReachedUploads(p) => LocalCopyKept(p, ".tex") /\ LocalCopyKept(p, ".pdf")

C14_Witness ==
    \E p \in Reqs, q \in Reqs :
        /\ pc[p] = "done" /\ log[p] = <<"raised_upload", "commit_error">>
        /\ resp[p] = HTTPException500
        /\ LocalCopyKept(p, ".tex") /\ LocalCopyKept(p, ".pdf")
        /\ pc[q] = "done" /\ log[q] = <<"commit_ready">>
        /\ LocalCopyKept(q, ".tex") /\ LocalCopyKept(q, ".pdf")

(* C15: after POST /reports/generate has answered 200, GET /reports/{id}      *)
(* returns the row with status ready and a non-empty storage_key_pdf, and     *)
(* GET /reports/download/{id} answers with the PDF compiled for that report.  *)
C15_DownloadAfterSuccess ==
    \A p \in Done :
        resp[p].code = 200 =>
            /\ get_report(report[p].id).code = 200
            /\ get_report(report[p].id).body[1].status = "ready"
            /\ IsSet(get_report(report[p].id).body[1].storage_key_pdf)
            /\ download_report(report[p].id).code = 200
            /\ download_report(report[p].id).body[1].by = p

NoRecord(id) == id \notin DOMAIN db

\* the answers of the two GET endpoints in a state
NotFoundAnswers ==
    \A id \in Ids :
        /\ get_report(id).code = 404 <=> NoRecord(id)
        /\ get_report(id).code # 404 => get_report(id) = [code |-> 200, body |-> <<db[id]>>]
        /\ (NoRecord(id) \/ ~IsSet(db[id].storage_key_pdf)) =>
               download_report(id) = NotFound("PDF no disponible")
        /\ (~NoRecord(id) /\ db[id].status \in {"processing", "error"}) =>
               download_report(id).code = 404
        /\ download_report(id).code = 404 =>
               (NoRecord(id) \/ ~IsSet(db[id].storage_key_pdf))

(* C16: GET /reports/{id} answers NotFound exactly when no row has the id;    *)
(* GET /reports/download/{id} answers NotFound when no row has the id or the  *)
(* row has no storage_key_pdf, hence for every processing and error row; and  *)
(* no step of either endpoint changes the table.                              *)
C16_NotFoundAndNoWrites ==
    /\ []NotFoundAnswers
    /\ [][db' # db => ~(\E id \in Ids : GetReport(id) \/ DownloadReport(id))]_vars

C16_Witness ==
    \E a \in Ids, b \in Ids, c \in Ids :
        /\ NoRecord(a) /\ get_report(a).code = 404 /\ download_report(a).code = 404
        /\ ~NoRecord(b) /\ db[b].status = "error" /\ download_report(b).code = 404
        /\ get_report(b).code = 200
        /\ ~NoRecord(c) /\ db[c].status = "ready" /\ download_report(c).code # 404

Started == {p \in Reqs : report[p] # Unbound}

\* the row of p says what the pipeline of p did, and nothing else
OwnOutcome(p) ==
    /\ Row(p).status = "ready" <=> InLog(p, "commit_ready")
    /\ Row(p).status = "error" <=> InLog(p, "commit_error")
    /\ Row(p).tenant_id = req[p].tenant_id /\ Row(p).params = req[p].params
    /\ Row(p).status = "ready" =>
           /\ Row(p).storage_key_tex =
                  Some(S3Path(S3_BUCKET, S3Key(req[p].tenant_id, report[p].id, ".tex")))
           /\ Row(p).storage_key_pdf =
                  Some(S3Path(S3_BUCKET, S3Key(req[p].tenant_id, report[p].id, ".pdf")))
           /\ UploadedBy(Row(p).storage_key_tex.val, p)
           /\ UploadedBy(Row(p).storage_key_pdf.val, p)
    /\ Row(p).status # "ready" => ~Row(p).storage_key_tex.set /\ ~Row(p).storage_key_pdf.set

(* C17: in every interleaving, two requests have different rows, different    *)
(* working directories and different files in OUTPUT_DIR; a working           *)
(* directory and the output files of a report hold only what the request of   *)
(* that report wrote; and the status and the keys of a row follow from the    *)
(* pipeline of its own request alone.                                         *)
C17_RequestsIndependent ==
    /\ \A p \in Started, q \in Started : p # q => report[p].id # report[q].id
    /\ \A p \in InCompile, q \in InCompile : p # q => tmpdir[p] # tmpdir[q]
    /\ \A p \in InCompile :
          \A f \in tmpfs[tmpdir[p]] :
              f.by = p /\ f.path[1] = tmpdir[p] /\ f.path[2] = report[p].id
    /\ \A p \in Started :
          /\ \A f \in outdir : f.path[2] = report[p].id => f.by = p
          /\ HasRow(p) => OwnOutcome(p)

C17_Witness ==
    \E p \in Reqs, q \in Reqs :
        /\ p # q
        /\ pc[p] = "check" /\ pc[q] = "check"
        /\ tmpdir[p] # tmpdir[q]
        /\ tmpfs[tmpdir[p]] # {} /\ tmpfs[tmpdir[q]] # {}

\* the fields no update writes
Identity(r) == <<r.id, r.tenant_id, r.type, r.period, r.params, r.created_at>>

\* each row holds the fields of the request it was created for
StoredVerbatim ==
    \A p \in Reqs :
        HasRow(p) /\ pc[p] # "done" =>
            /\ Row(p).id = report[p].id
            /\ Row(p).tenant_id = req[p].tenant_id
            /\ Row(p).type = req[p].type
            /\ Row(p).period = req[p].period
            /\ Row(p).params = req[p].params

\* what a step may do to a row that exists
RowFrame(old, new) ==
    /\ Identity(new) = Identity(old)
    /\ new # old =>
           /\ new.status \in {"ready", "error"}
           /\ new.updated_at > old.updated_at
           /\ new.status = "error" =>
                  /\ new.storage_key_pdf = old.storage_key_pdf
                  /\ new.storage_key_tex = old.storage_key_tex

(* C18: once a row exists, its id, tenant_id, type, period, params and        *)
(* created_at never change, and params are those of the request; the error    *)
(* update changes status and updated_at only, the ready update status, the    *)
(* two storage keys and updated_at only.                                      *)
C18_IdentityFieldsImmutable ==
    /\ []StoredVerbatim
    /\ [][\A id \in DOMAIN db : id \in DOMAIN db' /\ RowFrame(db[id], db'[id])]_vars

C18_Witness ==
    \E p \in Reqs, q \in Reqs :
        /\ HasRow(p) /\ Row(p).status = "ready" /\ Row(p).updated_at > utcnow(Row(p).created_at)
        /\ Row(p).params = [comentario |-> StrVal(<<"R", "&", "D">>)]
        /\ HasRow(q) /\ Row(q).status = "error" /\ Row(q).updated_at > utcnow(Row(q).created_at)
        /\ Row(q).params = [ventas |-> IntVal(1000), costos |-> IntVal(600),
                            utilidad |-> IntVal(400)]

Exts == {".tex", ".pdf"}

(* C19: every object of the bucket has the key S3_PREFIX tenant_id / id ext   *)
(* made of the tenant and the report id of the request that uploaded it;      *)
(* objects of different requests have different keys, and every key has       *)
(* received one upload only.                                                  *)
C19_KeysWrittenOnce ==
    /\ \A o \in s3 :
          /\ \E ext \in Exts :
                 o.key = <<S3_PREFIX, req[o.by].tenant_id, "/", report[o.by].id, ext>>
          /\ o.writes = 1
    /\ \A o1 \in s3, o2 \in s3 : o1.by # o2.by => o1.key # o2.key

C19_Witness ==
    \E p \in Reqs, q \in Reqs :
        /\ p # q /\ req[p].tenant_id = req[q].tenant_id
        /\ \A ext \in Exts :
              /\ \E o \in s3 : o.by = p /\ o.key[5] = ext
              /\ \E o \in s3 : o.by = q /\ o.key[5] = ext

\* nothing of the report of p is in OUTPUT_DIR or in the bucket
NothingPublished(p) ==
    /\ \A f \in outdir : f.path[2] # report[p].id /\ f.by # p
    /\ \A o \in s3 : o.by # p /\ o.key[4] # report[p].id

(* C20: when pdflatex leaves no PDF, the request publishes nothing: no file   *)
(* of the report is put in OUTPUT_DIR and no upload is made, neither before   *)
(* the row is set to error nor after.                                         *)
C20_NoArtifactNothingPublished ==
    \A p \in Reqs :
        InLog(p, "raised_compile") =>
            /\ pc[p] \in {"except", "done"}
            /\ NothingPublished(p)
            /\ ~InLog(p, "upload_tex") /\ ~InLog(p, "upload_pdf")
            /\ ~InLog(p, "raised_upload") /\ ~InLog(p, "commit_ready")
            /\ pc[p] = "except" => StagesRun(p) = <<"generate", "pdflatex">>

C20_Witness ==
    \E p \in Reqs, q \in Reqs :
        /\ pc[p] = "done" /\ log[p] = <<"raised_compile", "commit_error">>
        /\ Row(p).status = "error" /\ NothingPublished(p)
        /\ pc[q] = "done" /\ log[q] = <<"commit_ready">> /\ ~NothingPublished(q)

====
